---- MODULE Spec2Model ----
(***************************************************************************)
(* Model of the meta-preprocessor engine of PhucXDoan/pxd.                 *)
(*                                                                         *)
(* The repository holds the engine twice: metapreprocess() in src/pxd.py   *)
(* (keyword headers `export`/`import`/`global`) and do() in                *)
(* src/metapreprocessor.py (colon headers `exports : imports`).  Both      *)
(* validate the directive set, schedule it and then run each directive     *)
(* through a decorator; the decorators differ in the order of their steps, *)
(* in how imported values reach the body and in how results are merged.    *)
(* The variable `engine` says which of the two is running.                 *)
(*                                                                         *)
(* A directive is a record [exp, imp, glb, inc]: the identifiers listed    *)
(* after `export`, `import` and `global`, and the include path (NoPath     *)
(* when no include-directive precedes the header).  Directive bodies are   *)
(* opaque scripts: a body is a record saying what the script does          *)
(* (Bodies).                                                               *)
(*                                                                         *)
(* Spec runs every body in one step and follows the symbol table across    *)
(* directives and invocations.  MetaSpec runs the bodies of two directives *)
(* one call at a time (Meta.line, Meta.enter, Meta.section, Meta.define,   *)
(* try blocks, exceptions) and follows the emission context.  GenSpec runs *)
(* a body that calls the generation primitives (Meta.enums, Meta.lut),     *)
(* LineSpec a body that hands blocks of text to Meta.line.                 *)
(* ParseSpec reads the lines of a source file into directives.             *)
(***************************************************************************)
EXTENDS Integers, Sequences, FiniteSets, TLC

VARIABLES
    engine,     \* "pxd" (src/pxd.py) or "mpp" (src/metapreprocessor.py)
    callback,   \* TRUE when an instrumentation callback is supplied
    dirs,       \* the directives found, indexed by directive id
    broken,     \* the ids of the directives whose body has a syntax error
    order,      \* the order of the input file list, as a sequence of ids
    run,        \* 1 for the first invocation, 2 for the one on the permuted list
    phase,      \* "check", "sort", "compile", "exec", "done", "failed"; for a
                \*   source file "parse", "parse-bodies", "run"
    implicit,   \* id -> identifiers imported implicitly (kind 'implicit')
    remaining,  \* remaining_meta_directives
    schedule,   \* meta_directives after sorting
    available,  \* available_identifier_names
    cur,        \* position in `schedule` of the directive being evaluated
    pc,         \* position in the decorator's step list
    table,      \* defined_identifiers / __META_GLOBALS__
    params,     \* the imported values as the body holds them
    fglobals,   \* function_globals of the directive being evaluated
    Meta,       \* the emission context: [output, indent, within_macro,
                \*   overloads, section_stack]
    files,      \* path -> text written there, or NotWritten
    script,     \* id -> what the body of that directive does, once it has run
    log,        \* the events of this run, in order
    err,        \* "none" or the kind of the fatal error
    errLine,    \* the line number cited by an unresolved-export error
    cited,      \* the line numbers cited by a structural or a syntax error
    body,       \* the running body: its open `with` blocks and its calls so far
    prevTable,  \* the final symbol table of run 1
    source      \* the source file being read: its lines, the number of lines
                \*   read so far and the directives found in them

vars == << engine, callback, dirs, broken, order, run, phase, implicit,
           remaining, schedule, available, cur, pc, table, params, fglobals,
           Meta, files, script, log, err, errLine, cited, body, prevTable,
           source >>

----------------------------------------------------------------------------
(* Bounds of the model.                                                    *)

MaxDirectives == 2
MaxQuirks == 2
ValMod == 3

Names == {"X", "Y"}
Dummy == "_"
Paths == {"a.meta", "b.meta"}
NoPath == "none"
\* A name that is no key of a dictionary; a path no file was written to.
Unbound == 0 - 1
NotWritten == << [kind |-> "absent", by |-> 0] >>
Values == 0 .. (ValMod - 1)

NameOrder == <<"X", "Y">>

DirectiveSpace ==
    { d \in [exp : SUBSET Names, imp : SUBSET Names, glb : SUBSET Names,
             inc : Paths \cup {NoPath}] :
        /\ d.glb \cap d.exp = {}
        /\ d.glb \cap d.imp = {} }

\* The headers the colon form `exports : imports` can express: a directive
\* is a global exporter when its import field is present and empty.
MppExpressible(d) == d.glb # {} => (d.exp = {} /\ d.imp = {})

\* Paths are interchangeable: they are drawn in the order of their first use.
FirstUseOrder(ds) ==
    \A i \in DOMAIN ds :
        ds[i].inc = "b.meta" => \E j \in 1 .. (i - 1) : ds[j].inc = "a.meta"

Ids == DOMAIN dirs

Perms(n) == { p \in [1 .. n -> 1 .. n] : \A i, j \in 1 .. n : p[i] = p[j] => i = j }

Range(s) == { s[i] : i \in DOMAIN s }

\* The members of set S in the order of sequence s.
RECURSIVE InOrder(_, _)
InOrder(s, S) ==
    IF s = << >> THEN << >>
    ELSE (IF Head(s) \in S THEN << Head(s) >> ELSE << >>) \o InOrder(Tail(s), S)

\* Identifiers of kind 'export' or 'global' of a directive.
Defined(d) == d.exp \cup d.glb

\* Identifiers of kind 'import' or 'implicit' of directive i.
Imports(i) == dirs[i].imp \cup implicit[i]

\* The identifiers a directive is to define, in the order they are listed.
DeclaredSeq(d) == InOrder(NameOrder, d.exp) \o InOrder(NameOrder, d.glb)

\* The first member of sequence s that is in set S.
FirstIn(s, S) == Head(InOrder(s, S))

----------------------------------------------------------------------------
(* Source layout: directive i has its include-directive on line           *)
(* 10 i - 1 and its header from line 10 i on, one line per kind in the     *)
(* order export, import, global.  The colon form has a single header line. *)

HeaderLine(i) == 10 * i

\* include_line_number and body_line_number.
IncludeLine(i) == HeaderLine(i) - 1

BodyLine(i) == HeaderLine(i) + 3

\* identifier.line_number: the header line that lists the identifier.
IdentifierLine(i, name) ==
    IF name \in dirs[i].exp THEN HeaderLine(i)
    ELSE IF name \in dirs[i].imp THEN HeaderLine(i) + 1
    ELSE HeaderLine(i) + 2

----------------------------------------------------------------------------
(* Validation of the directive set.                                        *)

\* coalesce(): the keys that come with more than one value.
Conflicts(keyOf, S) == { k \in { keyOf[i] : i \in S } :
                           Cardinality({ i \in S : keyOf[i] = k }) > 1 }

\* An identifier listed more than once in one header.
ListedTwice(d) == d.exp \cap d.imp # {}

DuplicatePath ==
    Conflicts([i \in Ids |-> dirs[i].inc], { i \in Ids : dirs[i].inc # NoPath }) # {}

\* Mutant of DuplicateExport: the check is left out.
DuplicateExportUnchecked == FALSE

DuplicateExport ==
    \E i, j \in Ids : i # j /\ Defined(dirs[i]) \cap Defined(dirs[j]) # {}

all_defined_identifier_names == UNION { Defined(dirs[i]) : i \in Ids }

UnknownImport(d) == ~ (d.imp \subseteq all_defined_identifier_names)

\* metapreprocess(): the first check that fails, "none" when all pass.
PxdValidate ==
    IF \E i \in Ids : ListedTwice(dirs[i]) THEN "listed-twice"
    ELSE IF DuplicatePath THEN "duplicate-path"
    ELSE IF DuplicateExport THEN "duplicate-export"
    ELSE IF \E i \in Ids : UnknownImport(dirs[i]) THEN "unknown-import"
    ELSE "none"

\* do(): the first check that fails, "none" when all pass.
RECURSIVE MppImportCheck(_)
MppImportCheck(s) ==
    IF s = << >> THEN "none"
    ELSE LET d == dirs[Head(s)]
             bad == { n \in d.imp : n \in d.exp \/ n \notin all_defined_identifier_names }
             first == Head(InOrder(NameOrder, bad))
         IN IF bad = {} THEN MppImportCheck(Tail(s))
            ELSE IF first \in d.exp THEN "listed-twice" ELSE "unknown-import"

MppValidate ==
    IF DuplicatePath THEN "duplicate-path"
    ELSE IF DuplicateExport THEN "duplicate-export"
    ELSE MppImportCheck(order)

Validate == IF engine = "pxd" THEN PxdValidate ELSE MppValidate

\* The locations an error of the validation cites ('frames').  coalesce()
\* keeps the keys in the order they are first seen, and the first key with
\* more than one value is the one reported.
RECURSIVE SeenPaths(_)
SeenPaths(s) ==
    IF s = << >> THEN << >>
    ELSE (IF dirs[Head(s)].inc # NoPath THEN << dirs[Head(s)].inc >> ELSE << >>)
         \o SeenPaths(Tail(s))

RECURSIVE SeenNames(_)
SeenNames(s) ==
    IF s = << >> THEN << >>
    ELSE DeclaredSeq(dirs[Head(s)]) \o SeenNames(Tail(s))

PathConflict ==
    FirstIn(SeenPaths(order),
            Conflicts([i \in Ids |-> dirs[i].inc], { i \in Ids : dirs[i].inc # NoPath }))

DuplicatePathCited == { IncludeLine(i) : i \in { j \in Ids : dirs[j].inc = PathConflict } }

NameConflict ==
    FirstIn(SeenNames(order),
            { n \in Names : Cardinality({ i \in Ids : n \in Defined(dirs[i]) }) > 1 })

\* Mutant of PxdDuplicateExportCited: only the first definition is cited.
PxdDuplicateExportCitedFirst ==
    LET i == FirstIn(order, { j \in Ids : NameConflict \in Defined(dirs[j]) })
    IN { IdentifierLine(i, NameConflict) }

PxdDuplicateExportCited ==
    { IdentifierLine(i, NameConflict) :
        i \in { j \in Ids : NameConflict \in Defined(dirs[j]) } }

MppDuplicateExportCited ==
    { HeaderLine(i) : i \in { j \in Ids : NameConflict \in Defined(dirs[j]) } }

PxdValidateCited(kind) ==
         IF kind = "listed-twice"
    THEN LET i == FirstIn(order, { j \in Ids : ListedTwice(dirs[j]) })
         IN { HeaderLine(i), HeaderLine(i) + 1 }
    ELSE IF kind = "duplicate-path" THEN DuplicatePathCited
    ELSE IF kind = "duplicate-export" THEN PxdDuplicateExportCited
    ELSE LET i == FirstIn(order, { j \in Ids : UnknownImport(dirs[j]) })
         IN { HeaderLine(i) + 1 }

MppValidateCited(kind) ==
         IF kind = "duplicate-path" THEN DuplicatePathCited
    ELSE IF kind = "duplicate-export" THEN MppDuplicateExportCited
    ELSE LET bad(j) == \E n \in dirs[j].imp :
                          n \in dirs[j].exp \/ n \notin all_defined_identifier_names
         IN { HeaderLine(FirstIn(order, { j \in Ids : bad(j) })) }

ValidateCited(kind) ==
    IF engine = "pxd" THEN PxdValidateCited(kind) ELSE MppValidateCited(kind)

\* Bare headers import everything; every directive without a global list
\* imports the global identifiers.
all_global_identifier_names == UNION { dirs[i].glb : i \in Ids }

BareHeader(d) == d.exp = {} /\ d.imp = {} /\ d.glb = {}

ImplicitImports(d) ==
    LET bare == IF BareHeader(d) THEN all_defined_identifier_names ELSE {}
        glob == IF d.glb = {} THEN all_global_identifier_names ELSE {}
    IN (bare \cup glob) \ (d.exp \cup d.imp \cup d.glb)

----------------------------------------------------------------------------
(* Directive bodies.  A body is an opaque script; the record says what it  *)
(* does when it runs, in this order: it changes the imported values in     *)
(* place (mutates), emits text through Meta (emit), fails (raises), binds  *)
(* some of its declared identifiers (binds) and the dummy `_` (und).       *)

Plain(d) == [raises |-> FALSE, mutates |-> FALSE, binds |-> Defined(d),
             und |-> FALSE, emit |-> "none"]

QuirkCount(d, b) ==
      (IF b.raises THEN 1 ELSE 0) + (IF b.mutates THEN 1 ELSE 0)
    + (IF b.binds # Defined(d) THEN 1 ELSE 0) + (IF b.und THEN 1 ELSE 0)
    + (IF b.emit # "none" THEN 1 ELSE 0)

NoScript == [raises |-> FALSE, mutates |-> FALSE, binds |-> {},
             und |-> FALSE, emit |-> "unset"]

\* The quirks of the bodies that have run so far.
RECURSIVE QuirksOf(_)
QuirksOf(S) ==
    IF S = {} THEN 0
    ELSE LET i == CHOOSE j \in S : TRUE
         IN QuirkCount(dirs[i], script[i]) + QuirksOf(S \ {i})

UsedQuirks == QuirksOf({ i \in Ids : script[i] # NoScript })

\* The bodies drawn for directive i: a run holds at most MaxQuirks quirks.
Bodies(i) ==
    { b \in [raises : BOOLEAN, mutates : BOOLEAN, binds : SUBSET Defined(dirs[i]),
             und : BOOLEAN, emit : {"none", "line", "overload"}] :
        /\ b.mutates => Imports(i) # {}
        /\ QuirkCount(dirs[i], b) + UsedQuirks <= MaxQuirks }

\* In-place change of a value by a body.
Mutated(v) == (v + 1) % ValMod

\* The value the body of directive i binds: a function of what it imported.
RECURSIVE SumOver(_, _)
SumOver(f, S) ==
    IF S = {} THEN 0
    ELSE LET n == CHOOSE m \in S : TRUE IN f[n].val + SumOver(f, S \ {n})

BoundValue(i, p) == (i + SumOver(p, DOMAIN p)) % ValMod

----------------------------------------------------------------------------
(* The run.                                                                *)

EmptyTable == [n \in Names \cup {Dummy} |-> Unbound]
EmptyMeta == [output |-> << >>, indent |-> 0, within_macro |-> FALSE,
              overloads |-> << >>, section_stack |-> << >>]
NoFiles == [p \in Paths |-> NotWritten]

\* No body is running.
NoBody == [stack |-> << >>, calls |-> 0, local |-> 0]

\* The source files are read.
NoSource == [lines |-> << >>, read |-> 0, found |-> << >>]

Fresh(o) ==
    /\ order = o
    /\ source = NoSource
    /\ phase = "check"
    /\ implicit = [i \in Ids |-> {}]
    /\ remaining = << >>
    /\ schedule = << >>
    /\ available = {}
    /\ cur = 0
    /\ pc = 0
    /\ table = EmptyTable
    /\ params = << >>
    /\ fglobals = EmptyTable
    /\ Meta = EmptyMeta
    /\ files = NoFiles
    /\ log = << >>
    /\ err = "none"
    /\ errLine = 0
    /\ cited = {}
    /\ body = NoBody

Init ==
    /\ engine \in {"pxd", "mpp"}
    /\ callback \in BOOLEAN
    /\ dirs \in UNION { [1 .. n -> DirectiveSpace] : n \in 1 .. MaxDirectives }
    /\ broken \in SUBSET Ids
    /\ engine = "mpp" => \A i \in Ids : MppExpressible(dirs[i])
    /\ FirstUseOrder(dirs)
    /\ run = 1
    /\ script = [i \in Ids |-> NoScript]
    /\ prevTable = EmptyTable
    /\ Fresh([i \in Ids |-> i])

\* Mutant of Fail: the error is recorded and the engine goes on.
FailAndGoOn(kind) ==
    /\ err' = kind
    /\ UNCHANGED phase

\* A fatal error: the exception leaves the engine, nothing runs after it.
Fail(kind) ==
    /\ err' = kind
    /\ phase' = "failed"

\* Validation and the implicit imports.
Check ==
    /\ phase = "check"
    /\ IF Validate # "none"
       THEN /\ Fail(Validate)
            /\ cited' = ValidateCited(Validate)
            /\ UNCHANGED << implicit, remaining >>
       ELSE /\ implicit' = [i \in Ids |-> ImplicitImports(dirs[i])]
            /\ remaining' = order
            /\ phase' = "sort"
            /\ err' = "none"
            /\ cited' = cited
    /\ UNCHANGED << source, engine, callback, dirs, broken, order, run, schedule, available, cur,
                    pc, table, params, fglobals, Meta, files, script, log,
                    errLine, body, prevTable >>

\* Mutant of Satisfied: the implicit imports are not looked at.
SatisfiedExplicitly(i) == dirs[i].imp \subseteq available

\* A directive whose dependencies are all satisfied.
Satisfied(i) == Imports(i) \subseteq available

\* Mutant of NextIndex: the loop takes the first remaining directive without
\* looking at its dependencies.
NextIndexUnchecked == IF remaining = << >> THEN 0 ELSE 1

\* Mutant of NextIndex: the loop takes the last directive that can run.
NextIndexLatest ==
    LET ok == { k \in DOMAIN remaining : Satisfied(remaining[k]) }
    IN IF ok = {} THEN 0 ELSE CHOOSE k \in ok : \A m \in ok : m <= k

\* The index in `remaining` that the for-loop stops at, 0 when it runs out.
NextIndex ==
    LET ok == { k \in DOMAIN remaining : Satisfied(remaining[k]) }
    IN IF ok = {} THEN 0 ELSE CHOOSE k \in ok : \A m \in ok : k <= m

Remove(s, k) == [j \in 1 .. (Len(s) - 1) |-> IF j < k THEN s[j] ELSE s[j + 1]]

\* Mutant of PxdCircularCited: only the first remaining directive is cited.
PxdCircularCitedFirst == { HeaderLine(remaining[1]) }

\* The locations the circular-dependency error cites.
PxdCircularCited ==
    { HeaderLine(i) : i \in { j \in Range(remaining) : ~ BareHeader(dirs[j]) } }

MppCircularCited ==
    { HeaderLine(i) : i \in { j \in Range(remaining) : dirs[j].imp # {} } }

CircularCited == IF engine = "pxd" THEN PxdCircularCited ELSE MppCircularCited

\* One iteration of the sorting loop.
Sort ==
    /\ phase = "sort"
    /\ IF remaining = << >>
       THEN /\ phase' = "compile"
            /\ UNCHANGED << remaining, schedule, available, err, cited >>
       ELSE IF NextIndex = 0
       THEN /\ Fail("circular")
            /\ cited' = CircularCited
            /\ UNCHANGED << remaining, schedule, available >>
       ELSE /\ available' = available \cup Defined(dirs[remaining[NextIndex]])
            /\ schedule' = Append(schedule, remaining[NextIndex])
            /\ remaining' = Remove(remaining, NextIndex)
            /\ UNCHANGED << phase, err, cited >>
    /\ UNCHANGED << source, engine, callback, dirs, broken, order, run, implicit, cur,
                    pc, table, params, fglobals, Meta, files, script, log,
                    errLine, body, prevTable >>

\* The first directive of the schedule whose body does not parse, 0 when
\* all parse.
FirstBroken ==
    LET bad == { k \in DOMAIN schedule : schedule[k] \in broken }
    IN IF bad = {} THEN 0 ELSE CHOOSE k \in bad : \A m \in bad : k <= m

\* Mutant of SyntaxCheck: only the first body is parsed beforehand.
SyntaxCheckedFirstOnly == IF schedule[1] \in broken THEN 1 ELSE 0

\* The bodies are parsed one by one; the first syntax error is reported.
SyntaxCheck == FirstBroken

\* Every body is parsed before the first directive is evaluated.
Compile ==
    /\ phase = "compile"
    /\ IF SyntaxCheck # 0
       THEN /\ Fail("syntax")
            /\ cited' = { BodyLine(schedule[SyntaxCheck]) }
            /\ UNCHANGED << cur, pc >>
       ELSE /\ phase' = "exec"
            /\ cur' = 1
            /\ pc' = 1
            /\ UNCHANGED << err, cited >>
    /\ UNCHANGED << source, engine, callback, dirs, broken, order, run, implicit,
                    remaining, schedule, available, table, params, fglobals,
                    Meta, files, script, log, errLine, body, prevTable >>

----------------------------------------------------------------------------
(* The decorator that evaluates one directive.  Its steps, in the order    *)
(* the code performs them.                                                 *)

PxdSteps == << "parameters", "reset", "before", "body", "after", "output",
               "verify", "merge" >>

\* Mutant of MppSteps: the callback is not resumed.
MppStepsNoAfter == << "before", "parameters", "reset", "body", "output",
                      "exports" >>

MppSteps == << "before", "parameters", "reset", "body", "output", "exports",
               "after" >>

Steps == IF engine = "pxd" THEN PxdSteps ELSE MppSteps

Current == schedule[cur]

AtStep(name) ==
    /\ phase = "exec"
    /\ Steps[pc] = name

Event(ev, sym, text) ==
    [ev |-> ev, id |-> Current, sym |-> sym, text |-> text, val |-> Unbound]

Merged(sym) == [Event("merge", sym, << >>) EXCEPT !.val = fglobals[sym]]

\* Moves on to the next step, or to the next directive after the last step.
Advance ==
    IF pc < Len(Steps)
    THEN /\ pc' = pc + 1
         /\ UNCHANGED << cur, phase >>
    ELSE IF cur < Len(schedule)
    THEN /\ pc' = 1
         /\ cur' = cur + 1
         /\ UNCHANGED phase
    ELSE /\ phase' = "done"
         /\ UNCHANGED << cur, pc >>

\* How an imported value reaches the body: metapreprocess() passes the
\* object bound in defined_identifiers, do() passes a deep copy of it.
PxdParameter(v) == [val |-> v, shared |-> TRUE]

MppParameter(v) == [val |-> v, shared |-> FALSE]

Parameter(v) == IF engine = "pxd" THEN PxdParameter(v) ELSE MppParameter(v)

BuildParameters ==
    /\ AtStep("parameters")
    /\ params' = [n \in Imports(Current) |-> Parameter(table[n])]
    /\ Advance
    /\ UNCHANGED << source, engine, callback, dirs, broken, order, run, implicit, remaining,
                    schedule, available, table, fglobals, Meta, files, script,
                    log, err, errLine, cited, body,
                    prevTable >>

\* Mutant of Start: the output of the directive before is kept.
StartKeepsOutput(m) == [EmptyMeta EXCEPT !.output = m.output]

\* The working state of Meta when a directive starts.
Start(m) == EmptyMeta

\* Meta's working state and function_globals start empty.
ResetMeta ==
    /\ AtStep("reset")
    /\ Meta' = Start(Meta)
    /\ fglobals' = EmptyTable
    /\ Advance
    /\ UNCHANGED << source, engine, callback, dirs, broken, order, run, implicit, remaining,
                    schedule, available, table, params, files, script, log,
                    err, errLine, cited, body,
                    prevTable >>

\* Start of the callback: the generator runs up to its yield.
HookBefore ==
    /\ AtStep("before")
    /\ log' = IF callback THEN Append(log, Event("before", "-", << >>)) ELSE log
    /\ Advance
    /\ UNCHANGED << source, engine, callback, dirs, broken, order, run, implicit, remaining,
                    schedule, available, table, params, fglobals, Meta, files,
                    script, err, errLine, cited, body,
                    prevTable >>

\* What the generator receives when it is resumed: next() sends nothing,
\* send(Meta.output) sends the output.
NoneText == << [kind |-> "None", by |-> 0] >>

PxdResume(output) == NoneText

MppResume(output) == output

Resume(output) == IF engine = "pxd" THEN PxdResume(output) ELSE MppResume(output)

\* End of the callback: the generator is resumed and returns.
HookAfter ==
    /\ AtStep("after")
    /\ log' = IF callback
              THEN Append(log, Event("after", "-", Resume(Meta.output)))
              ELSE log
    /\ Advance
    /\ UNCHANGED << source, engine, callback, dirs, broken, order, run, implicit, remaining,
                    schedule, available, table, params, fglobals, Meta, files,
                    script, err, errLine, cited, body,
                    prevTable >>

\* The names the generated function declares global: a body's binding of
\* such a name lands in function_globals, of any other name in a local.
PxdGlobalStatement(d) == {Dummy} \cup Defined(d)

MppGlobalStatement(d) == Defined(d)

GlobalStatement(d) ==
    IF engine = "pxd" THEN PxdGlobalStatement(d) ELSE MppGlobalStatement(d)

\* __codegen: Meta generates code only for a directive with an include path.
CodegenAllowed(d) == engine = "pxd" \/ d.inc # NoPath

----------------------------------------------------------------------------
(* The emission context.  A line of text is a record: what it is (kind),   *)
(* the number of spaces it starts with (depth), the number of              *)
(* backslashes it ends with (cont), its text (text) and, for a #define,    *)
(* the parameter list (params) and the expansion: the operands pasted with *)
(* ## (paste) and the argument list that follows them (args).  Two fields  *)
(* are not text: the directive whose body emitted the line (by) and the    *)
(* Meta.define() call it comes from (call).                                *)

NoCall == [name |-> "", params |-> << >>, keys |-> << >>, vals |-> << >>,
           paste |-> << >>, args |-> << >>]

\* A one-line string handed to Meta.line by the running body.
Text(kind, text) ==
    [kind |-> kind, by |-> Current, depth |-> 0, cont |-> 0, text |-> text,
     params |-> << >>, paste |-> << >>, args |-> << >>, call |-> NoCall]

\* line.strip() == ''
IsBlank(l) == l.kind = "blank" /\ l.cont = 0

Least(S) == CHOOSE x \in S : \A y \in S : x <= y

\* deindent: a blank first line is skipped, the indentation common to the
\* lines that are not blank is removed.
deindent(lines) ==
    LET kept == IF lines # << >> /\ IsBlank(lines[1]) THEN Tail(lines) ELSE lines
        measured == { kept[k].depth : k \in { j \in DOMAIN kept : ~ IsBlank(kept[j]) } }
    IN [k \in DOMAIN kept |->
           IF measured = {} THEN kept[k]
           ELSE [kept[k] EXCEPT !.depth = @ - Least({@, Least(measured)})]]

\* One line as Meta.line outputs it: reindented, continued inside a macro,
\* trailing spaces removed.
Reindented(m, l) ==
    [l EXCEPT !.depth = IF IsBlank(l) /\ ~ m.within_macro THEN 0 ELSE 4 * m.indent + @,
              !.cont = IF m.within_macro THEN @ + 1 ELSE @]

\* Meta.line(*args): a deferred section header is output first, by a
\* recursive call that outputs the headers deferred before it.
RECURSIVE line(_, _)
line(m, strings) ==
    LET flushed ==
            IF m.section_stack # << >>
            THEN line([m EXCEPT !.section_stack = SubSeq(@, 1, Len(@) - 1)],
                      << Text("section", m.section_stack[Len(m.section_stack)]) >>)
            ELSE m
        lines == deindent(strings)
    IN [flushed EXCEPT !.output = @ \o [k \in DOMAIN lines |-> Reindented(flushed, lines[k])]]

\* Meta.line(): the string literal of a line break and the spaces before
\* its closing quotes; the literal of do() has an empty line between them.
Spaces(n) == [Text("blank", "") EXCEPT !.depth = n]

EmptyLine ==
    IF engine = "pxd" THEN << Spaces(0), Spaces(16) >>
    ELSE << Spaces(0), Spaces(0), Spaces(12) >>

RECURSIVE Joined(_, _)
Joined(strings, separator) ==
    IF strings = << >> THEN ""
    ELSE IF Len(strings) = 1 THEN strings[1]
    ELSE strings[1] \o separator \o Joined(Tail(strings), separator)

\* [parameter for parameter in parameters if parameter not in overloading]
NotOverloading(parameters, overloading) ==
    LET Kept(parameter) == parameter \notin Range(overloading)
    IN SelectSeq(parameters, Kept)

Registered(m, name) == { k \in DOMAIN m.overloads : m.overloads[k].name = name }

\* Mutant of Coherent: instances of an overloaded macro are not compared.
CoherentUnchecked(m, c) == Range(c.keys) \subseteq Range(c.params)

\* The coherency checks of an overloaded Meta.define.
Coherent(m, c) ==
    /\ Range(c.keys) \subseteq Range(c.params)
    /\ \A k \in Registered(m, c.name) :
          m.overloads[k] = [name |-> c.name, params |-> c.params, keys |-> c.keys]

\* Meta.define of a single-line macro that passes the coherency checks.
define(m, c) ==
    IF c.keys = << >>
    THEN line(m, << [Text("define", c.name) EXCEPT
                        !.params = c.params, !.paste = c.paste,
                        !.args = c.args, !.call = c] >>)
    ELSE LET noted == IF Registered(m, c.name) = {}
                      THEN Append(m.overloads, [name |-> c.name, params |-> c.params,
                                                keys |-> c.keys])
                      ELSE m.overloads
             name == "__MACRO_OVERLOAD__" \o c.name \o "__" \o Joined(c.vals, "__")
         IN line([m EXCEPT !.overloads = noted],
                 << [Text("define", name) EXCEPT
                        !.params = NotOverloading(c.params, c.keys),
                        !.paste = c.paste, !.args = c.args, !.call = c] >>)

\* The calls of an overloaded Meta.define a body draws from: the macro, its
\* parameter list, the overload keys with their C values, the expansion.
Overloaded(name, parameters, overloading, values) ==
    [name |-> name, params |-> parameters, keys |-> overloading, vals |-> values,
     paste |-> << "0" >>, args |-> << >>]

DefineCalls ==
    { Overloaded("PICK", << "N", "X" >>, << "N" >>, << "1" >>),
      Overloaded("PICK", << "N", "X" >>, << "N" >>, << "2" >>),
      Overloaded("PICK", << "N", "M" >>, << "N" >>, << "1" >>),
      Overloaded("PICK", << "N", "M" >>, << "N", "M" >>, << "1", "2" >>),
      Overloaded("TAKE", << "K" >>, << "K" >>, << "1" >>) }

\* Evaluation of the body of the current directive as script b.
Evaluate(b) ==
    LET d == dirs[Current]
        held == [n \in DOMAIN params |->
                    IF b.mutates
                    THEN [params[n] EXCEPT !.val = Mutated(params[n].val)]
                    ELSE params[n]]
        bound == (b.binds \cup (IF b.und THEN {Dummy} ELSE {})) \cap GlobalStatement(d)
        unparsed == Current \in broken
        failed == unparsed \/ b.raises \/ (b.emit # "none" /\ ~ CodegenAllowed(d))
    IN /\ params' = held
       /\ table' = [n \in DOMAIN table |->
                       IF n \in DOMAIN params /\ params[n].shared /\ b.mutates
                       THEN Mutated(table[n])
                       ELSE table[n]]
       /\ Meta' = IF b.emit = "none" \/ ~ CodegenAllowed(d) THEN Meta
                  ELSE IF b.emit = "line"
                  THEN line(Meta, << Text("text", "") >>)
                  ELSE define(Meta, Overloaded("PICK", << "N", "X" >>, << "N" >>, << "1" >>))
       /\ IF failed
          THEN /\ Fail(IF unparsed THEN "syntax" ELSE "execution")
               /\ log' = log \o << Event("body-start", "-", << >>),
                                   Event("raised", "-", << >>) >>
               /\ UNCHANGED << fglobals, cur, pc >>
          ELSE /\ fglobals' = [n \in DOMAIN fglobals |->
                                  IF n \in bound THEN BoundValue(Current, held) ELSE fglobals[n]]
               /\ log' = log \o << Event("body-start", "-", << >>),
                                   Event("body-end", "-", << >>) >>
               /\ err' = "none"
               /\ Advance

RunBody ==
    /\ AtStep("body")
    /\ \E b \in (IF run = 1 THEN Bodies(Current) ELSE {script[Current]}) :
          /\ script' = [script EXCEPT ![Current] = b]
          /\ Evaluate(b)
    /\ UNCHANGED << source, engine, callback, dirs, broken, order, run, implicit, remaining,
                    schedule, available, files, errLine, cited, body,
                    prevTable >>

\* The call that defines the master macro of an overloaded macro.
MasterMacro(macro) ==
    [name |-> macro.name, params |-> macro.params, keys |-> << >>, vals |-> << >>,
     paste |-> << "__MACRO_OVERLOAD__" \o macro.name \o "__" >> \o macro.keys,
     args |-> NotOverloading(macro.params, macro.keys)]

\* Mutant of Dispatchers: no master macro is created.
DispatchersLeftOut(m, overloads) == m

\* The master macros of the overloaded macros, in the order of registration.
RECURSIVE Dispatchers(_, _)
Dispatchers(m, overloads) ==
    IF overloads = << >> THEN m
    ELSE Dispatchers(define(m, MasterMacro(Head(overloads))), Tail(overloads))

\* The emission context once the output is complete: the master macros, then
\* the generated code put back through Meta.line.
Finalization ==
    LET generated == Meta.output
        masters == Dispatchers([Meta EXCEPT !.output = << >>], Meta.overloads)
    IN IF generated # << >> THEN line(masters, generated) ELSE masters

\* The text of the output file.
Finalized == Finalization.output

\* If the directive generates code, the code is written to its include path.
WriteOutput ==
    /\ AtStep("output")
    /\ IF dirs[Current].inc # NoPath
       THEN /\ Meta' = Finalization
            /\ files' = [files EXCEPT ![dirs[Current].inc] = Finalized]
            /\ log' = Append(log, Event("write", "-", Finalized))
       ELSE UNCHANGED << Meta, files, log >>
    /\ Advance
    /\ UNCHANGED << source, engine, callback, dirs, broken, order, run, implicit, remaining,
                    schedule, available, table, params, fglobals, script, err,
                    errLine, cited, body,
                    prevTable >>

Events(ev, syms) == [k \in 1 .. Len(syms) |-> Event(ev, syms[k], << >>)]

MergeEvents(syms) == [k \in 1 .. Len(syms) |-> Merged(syms[k])]

\* Mutant of PxdMissingLine: the error cites the first header line.
PxdMissingLineHeader(i, name) == HeaderLine(i)

\* The line an unresolved-export error cites.
PxdMissingLine(i, name) == IdentifierLine(i, name)

MppMissingLine(i, name) == HeaderLine(i)

\* metapreprocess(): all identifiers to be defined are looked up, the first
\* undefined one is reported at its own line.
VerifyExports ==
    /\ AtStep("verify")
    /\ LET declared == DeclaredSeq(dirs[Current])
           undefined_identifiers ==
               InOrder(declared, { n \in Range(declared) : fglobals[n] = Unbound })
       IN IF undefined_identifiers # << >>
          THEN /\ Fail("missing-definition")
               /\ errLine' = PxdMissingLine(Current, undefined_identifiers[1])
               /\ log' = log \o Events("check", declared)
                             \o << Event("missing", undefined_identifiers[1], << >>) >>
               /\ UNCHANGED << cur, pc >>
          ELSE /\ log' = log \o Events("check", declared)
               /\ err' = "none"
               /\ errLine' = errLine
               /\ Advance
    /\ UNCHANGED << source, engine, callback, dirs, broken, order, run, implicit, remaining,
                    schedule, available, table, params, fglobals, Meta, files,
                    script, cited, body,
                    prevTable >>

\* defined_identifiers |= function_globals
MergedNames == { n \in DOMAIN fglobals : fglobals[n] # Unbound }

MergeExports ==
    /\ AtStep("merge")
    /\ table' = [n \in DOMAIN table |->
                    IF n \in MergedNames THEN fglobals[n] ELSE table[n]]
    /\ log' = log \o MergeEvents(InOrder(NameOrder \o << Dummy >>, MergedNames))
    /\ Advance
    /\ UNCHANGED << source, engine, callback, dirs, broken, order, run, implicit, remaining,
                    schedule, available, params, fglobals, Meta, files, script,
                    err, errLine, cited, body,
                    prevTable >>

\* do(): the exports are looked up and copied one after the other; the
\* first undefined one is reported at the header line.
FirstUnbound(declared) ==
    LET bad == { k \in DOMAIN declared : fglobals[declared[k]] = Unbound }
    IN IF bad = {} THEN 0 ELSE CHOOSE k \in bad : \A m \in bad : k <= m

RECURSIVE CopyEvents(_)
CopyEvents(syms) ==
    IF syms = << >> THEN << >>
    ELSE << Event("check", Head(syms), << >>), Merged(Head(syms)) >>
         \o CopyEvents(Tail(syms))

CopyExports ==
    /\ AtStep("exports")
    /\ LET declared == DeclaredSeq(dirs[Current])
           stop == FirstUnbound(declared)
           copied == IF stop = 0 THEN declared ELSE SubSeq(declared, 1, stop - 1)
       IN /\ table' = [n \in DOMAIN table |->
                          IF n \in Range(copied) THEN fglobals[n] ELSE table[n]]
          /\ IF stop # 0
             THEN /\ Fail("missing-definition")
                  /\ errLine' = MppMissingLine(Current, declared[stop])
                  /\ log' = log \o CopyEvents(copied)
                                \o << Event("check", declared[stop], << >>),
                                      Event("missing", declared[stop], << >>) >>
                  /\ UNCHANGED << cur, pc >>
             ELSE /\ log' = log \o CopyEvents(copied)
                  /\ err' = "none"
                  /\ errLine' = errLine
                  /\ Advance
    /\ UNCHANGED << source, engine, callback, dirs, broken, order, run, implicit, remaining,
                    schedule, available, params, fglobals, Meta, files, script,
                    cited, body,
                    prevTable >>

\* A second invocation on the same directives, the input file list permuted;
\* every body is the script it was in the first invocation.
Rerun ==
    /\ phase = "done"
    /\ run = 1
    /\ \E p \in Perms(Len(dirs)) :
          /\ p # order
          /\ order' = p
    /\ run' = 2
    /\ prevTable' = table
    /\ phase' = "check"
    /\ implicit' = [i \in Ids |-> {}]
    /\ remaining' = << >>
    /\ schedule' = << >>
    /\ available' = {}
    /\ cur' = 0
    /\ pc' = 0
    /\ table' = EmptyTable
    /\ params' = << >>
    /\ fglobals' = EmptyTable
    /\ Meta' = EmptyMeta
    /\ files' = NoFiles
    /\ log' = << >>
    /\ err' = "none"
    /\ errLine' = 0
    /\ cited' = {}
    /\ body' = NoBody
    /\ UNCHANGED << source, engine, callback, dirs, broken, script >>

Next ==
    \/ Check
    \/ Sort
    \/ Compile
    \/ BuildParameters
    \/ ResetMeta
    \/ HookBefore
    \/ RunBody
    \/ HookAfter
    \/ WriteOutput
    \/ VerifyExports
    \/ MergeExports
    \/ CopyExports
    \/ Rerun

Spec == Init /\ [][Next]_vars

----------------------------------------------------------------------------
(* The body of a directive, one call at a time.  The body is a sequence of *)
(* calls to Meta, `with` blocks and try blocks; body.stack holds the open  *)
(* blocks, innermost last.  An entry of the stack records the block (with, *)
(* header, text, original_depth) and, for the properties, the indentation, *)
(* the macro flag and the length of the output when it was opened.         *)

MaxCalls == 3
MaxSections == 2

Headers == {"#define M", "struct S"}

\* The text of a section header: sections are numbered by their nesting.
SectionText(k) == "S" \o ToString(k)

\* The rows of the lookup tables a body draws from: the index of a row
\* ("" when the row has none) and its fields, each a name with the value 1.
Row(index, fields) == [index |-> index, fields |-> fields]

LutTables ==
    { << >>,
      << Row("0", << "x", "y" >>) >>,
      << Row("0", << "x" >>), Row("1", << "x" >>) >>,
      << Row("0", << "x" >>), Row("0", << "x" >>) >>,
      << Row("0", << "x", "x" >>) >>,
      << Row("", << "x" >>), Row("", << "x" >>) >> }

Typed(field) == "typeof(1) " \o field \o ";"

\* The type lut makes for a table from the members of its first row.
TableType(table_rows) ==
    IF table_rows = << >> THEN "struct {}"
    ELSE LET first_row_members == table_rows[1].fields
         IN "struct { "
            \o Joined([k \in DOMAIN first_row_members |-> Typed(first_row_members[k])], " ")
            \o " }"

TableHeader(table_rows) == "static const " \o TableType(table_rows) \o " T[] ="

\* The (opening, closing, indented) that Meta.enter suggests for a header.
Suggestion(header) ==
    IF header = "#define M"
    THEN [defining_macro |-> TRUE, opening |-> "", closing |-> "", indented |-> FALSE]
    ELSE IF header \in { TableHeader(t) : t \in LutTables }
    THEN [defining_macro |-> FALSE, opening |-> "{", closing |-> "};", indented |-> TRUE]
    ELSE [defining_macro |-> FALSE, opening |-> "{", closing |-> "};", indented |-> FALSE]

Block(kind, header, text) ==
    [with |-> kind, header |-> header, text |-> text,
     original_depth |-> Len(Meta.section_stack), indent |-> Meta.indent,
     within_macro |-> Meta.within_macro, mark |-> Len(Meta.output)]

\* Meta.enter up to its yield.
enter(m, header) ==
    LET scope == Suggestion(header)
        flagged == IF scope.defining_macro THEN [m EXCEPT !.within_macro = TRUE] ELSE m
        headed == line(flagged, << Text("header", header) >>)
        indented == IF scope.indented THEN [headed EXCEPT !.indent = @ + 1] ELSE headed
        opened == IF scope.opening # ""
                  THEN line(indented, << Text("opening", scope.opening) >>)
                  ELSE indented
    IN [opened EXCEPT !.indent = @ + 1]

\* Meta.enter after its yield.
leave(m, header) ==
    LET scope == Suggestion(header)
        back == [m EXCEPT !.indent = @ - 1]
        closed == IF scope.closing # ""
                  THEN line(back, << Text("closing", scope.closing) >>)
                  ELSE back
        deindented == IF scope.indented THEN [closed EXCEPT !.indent = @ - 1] ELSE closed
    IN IF scope.defining_macro
       THEN line([deindented EXCEPT !.within_macro = FALSE], EmptyLine)
       ELSE deindented

\* A sequence of Meta.line calls, one string each.
RECURSIVE lines(_, _)
lines(m, strings) ==
    IF strings = << >> THEN m
    ELSE lines(line(m, << Head(strings) >>), Tail(strings))

\* The member lists an enumeration is given, and the ways of the count.
EnumMembers == { << >>, << "A" >>, << "A", "B" >>, << "B", "A" >>, << "A", "A" >> }

CountStyles == {"none", "define", "enum", "constexpr", "other"}

\* Mutant of MemberCount: the members of the same name count once.
MemberCountDistinct(members) == Cardinality(Range(members))

\* len(self.members)
MemberCount(members) == Len(members)

\* Meta.__enums.__exit__ up to the count: the members of enum E, named
\* E_<member>, in a scope of their own, or the forward declaration of an
\* enumeration with no member.
enumeration(m, members) ==
    LET named == [k \in DOMAIN members |-> Text("member", "E_" \o members[k])]
    IN IF named # << >>
       THEN leave(lines(enter(m, "enum E"), named), "enum E")
       ELSE line(m, << Text("forward", "enum E") >>)

\* The count of the members, in the style asked for.
counted(m, members, count) ==
    LET n == ToString(MemberCount(members))
    IN IF count = "define"
       THEN define(m, [name |-> "E_COUNT", params |-> << >>, keys |-> << >>,
                       vals |-> << >>, paste |-> << n >>, args |-> << >>])
       ELSE IF count \in {"enum", "constexpr"}
       THEN line(m, << [Text(count, "E_COUNT") EXCEPT !.paste = << n >>] >>)
       ELSE m

\* Meta.__enums.__exit__
enums(m, members, count) == counted(enumeration(m, members), members, count)

\* One row of a lookup table: its index if any, then its fields.
RowText(row) ==
    (IF row.index # "" THEN "[" \o row.index \o "] = " ELSE "")
    \o "{ " \o Joined([k \in DOMAIN row.fields |-> "." \o row.fields[k] \o " = 1"], ", ")
    \o " },"

\* Meta.lut(table_name, table_rows)
lut(m, table_rows) ==
    LET header == TableHeader(table_rows)
        rows == [k \in DOMAIN table_rows |->
                    [Text("row", RowText(table_rows[k])) EXCEPT
                        !.paste = << table_rows[k].index >>,
                        !.args = table_rows[k].fields]]
    IN leave(lines(enter(m, header), rows), header)

BodyFrame ==
    UNCHANGED << source, engine, callback, dirs, broken, order, run, implicit, remaining,
                 schedule, available, table, params, fglobals, files, script,
                 errLine, cited, prevTable >>

Running ==
    /\ AtStep("body")
    /\ Current \notin broken

Called == [body EXCEPT !.calls = @ + 1, !.local = @ + 1]

\* The events of a step of the body; the first step starts the body.
Logged(events) ==
    log' = log \o (IF body.local = 0 THEN << Event("body-start", "-", << >>) >> ELSE << >>)
               \o events

\* The call returns and the body goes on.
GoOn(m, stack, events) ==
    /\ Meta' = m
    /\ body' = [Called EXCEPT !.stack = stack]
    /\ Logged(events)
    /\ UNCHANGED << phase, cur, pc, err >>

Handlers == { k \in DOMAIN body.stack : body.stack[k].with = "try" }

Greatest(S) == CHOOSE x \in S : \A y \in S : y <= x

\* An exception in the body.  It leaves the `with` blocks up to the nearest
\* try block: a generator it is thrown into does not catch it and ends
\* there.  With no try block it leaves the body and the directive fails.
RaisedAfter(m, calls, events) ==
    /\ Meta' = m
    /\ IF Handlers # {}
       THEN /\ body' = [calls EXCEPT !.stack = SubSeq(@, 1, Greatest(Handlers) - 1)]
            /\ Logged(events)
            /\ UNCHANGED << phase, cur, pc, err >>
       ELSE /\ body' = [calls EXCEPT !.stack = << >>]
            /\ Logged(events \o << Event("raised", "-", << >>) >>)
            /\ Fail("execution")
            /\ UNCHANGED << cur, pc >>

\* An exception before anything was emitted.
Raised(calls, events) == RaisedAfter(Meta, calls, events)

\* A call of Meta that generates code, or the error of __codegen.
Codegen(m, stack, events) ==
    IF CodegenAllowed(dirs[Current]) THEN GoOn(m, stack, events) ELSE Raised(Called, << >>)

\* Meta.line('...')
CallLine ==
    /\ Running
    /\ body.calls < MaxCalls
    /\ Codegen(line(Meta, << Text("text", "") >>), body.stack, << >>)
    /\ BodyFrame

\* Meta.line()
CallLineEmpty ==
    /\ Running
    /\ body.calls < MaxCalls
    /\ Codegen(line(Meta, EmptyLine), body.stack, << >>)
    /\ BodyFrame

\* Meta.line(rows) with no row.
CallLineOfNothing ==
    /\ Running
    /\ body.calls < MaxCalls
    /\ Codegen(line(Meta, << >>), body.stack, << >>)
    /\ BodyFrame

\* with Meta.enter(header):
CallEnter ==
    /\ Running
    /\ body.calls < MaxCalls
    /\ \E header \in Headers :
          Codegen(enter(Meta, header), Append(body.stack, Block("enter", header, "")), << >>)
    /\ BodyFrame

\* with Meta.section(text):
CallSection ==
    /\ Running
    /\ body.calls < MaxCalls
    /\ engine = "pxd"
    /\ LET open == Cardinality({ k \in DOMAIN body.stack : body.stack[k].with = "section" })
       IN /\ open < MaxSections
          /\ GoOn([Meta EXCEPT !.section_stack = Append(@, SectionText(open + 1))],
                  Append(body.stack, Block("section", "", SectionText(open + 1))), << >>)
    /\ BodyFrame

\* try:
CallTry ==
    /\ Running
    /\ body.calls < MaxCalls
    /\ Handlers = {}
    /\ GoOn(Meta, Append(body.stack, Block("try", "", "")), << >>)
    /\ BodyFrame

\* The end of the innermost block is reached.
Leave ==
    /\ Running
    /\ body.stack # << >>
    /\ LET top == body.stack[Len(body.stack)]
       IN Meta' = IF top.with = "enter" THEN leave(Meta, top.header)
                  ELSE IF top.with = "section"
                  THEN [Meta EXCEPT !.section_stack =
                           SubSeq(@, 1, Least({top.original_depth, Len(@)}))]
                  ELSE Meta
    /\ body' = [body EXCEPT !.stack = SubSeq(@, 1, Len(@) - 1)]
    /\ UNCHANGED << phase, cur, pc, err, log >>
    /\ BodyFrame

\* A statement of the body raises.
Raise ==
    /\ Running
    /\ Raised(body, << >>)
    /\ BodyFrame

\* Meta.define(name, parameters, expansion, **overloading)
CallDefine ==
    /\ Running
    /\ body.calls < MaxCalls
    /\ \E c \in DefineCalls :
          LET call == << Event("call", c.name, << c >>) >>
          IN IF ~ CodegenAllowed(dirs[Current]) \/ ~ Coherent(Meta, c)
             THEN Raised(Called, call)
             ELSE GoOn(define(Meta, c), body.stack,
                       call \o << Event("define", c.name, << >>) >>)
    /\ BodyFrame

\* The body returns.
Return ==
    /\ Running
    /\ body.stack = << >>
    /\ body' = [body EXCEPT !.local = 0]
    /\ Logged(<< Event("body-end", "-", << >>) >>)
    /\ err' = "none"
    /\ Advance
    /\ UNCHANGED Meta
    /\ BodyFrame

\* Two directives that neither export nor import and whose bodies parse.
MetaInit ==
    /\ engine \in {"pxd", "mpp"}
    /\ callback = FALSE
    /\ dirs \in [1 .. 2 -> { d \in DirectiveSpace : BareHeader(d) }]
    /\ broken = {}
    /\ FirstUseOrder(dirs)
    /\ run = 1
    /\ script = [i \in Ids |-> NoScript]
    /\ prevTable = EmptyTable
    /\ Fresh([i \in Ids |-> i])

MetaNext ==
    \/ Check
    \/ Sort
    \/ Compile
    \/ BuildParameters
    \/ ResetMeta
    \/ HookBefore
    \/ CallLine
    \/ CallLineEmpty
    \/ CallLineOfNothing
    \/ CallEnter
    \/ CallSection
    \/ CallTry
    \/ Leave
    \/ Raise
    \/ CallDefine
    \/ Return
    \/ HookAfter
    \/ WriteOutput
    \/ VerifyExports
    \/ MergeExports
    \/ CopyExports

MetaSpec == MetaInit /\ [][MetaNext]_vars

----------------------------------------------------------------------------
(* The body of a directive that calls the generation primitives.           *)

MaxGenerated == 2

EnumsCall(members, count, collected) ==
    [members |-> members, count |-> count, collected |-> collected]

\* Meta.enums('E', None, members, count), or the members collected in a
\* `with Meta.enums('E', None, count = count) as members` block, whose body
\* may raise once they are collected: __exit__ runs all the same and does
\* not swallow the exception.
CallEnums ==
    /\ Running
    /\ body.calls < MaxGenerated
    /\ \E members \in EnumMembers, count \in CountStyles, collected, raises \in BOOLEAN :
          LET call == << Event("enums", count, << EnumsCall(members, count, collected) >>) >>
              done == << Event("enums-done", count, << >>) >>
          IN /\ raises => collected
             /\ IF ~ CodegenAllowed(dirs[Current])
                THEN Raised(Called, call)
                ELSE IF count = "other"
                THEN RaisedAfter(enumeration(Meta, members), Called, call)
                ELSE IF raises
                THEN RaisedAfter(enums(Meta, members, count), Called, call \o done)
                ELSE GoOn(enums(Meta, members, count), body.stack, call \o done)
    /\ BodyFrame

\* Meta.lut('T', table_rows)
CallLut ==
    /\ Running
    /\ body.calls < MaxGenerated
    /\ \E table_rows \in LutTables :
          LET call == << Event("lut", "T", table_rows) >>
          IN IF ~ CodegenAllowed(dirs[Current])
             THEN Raised(Called, call)
             ELSE GoOn(lut(Meta, table_rows), body.stack,
                       call \o << Event("lut-done", "T", << >>) >>)
    /\ BodyFrame

\* One directive that neither exports nor imports and whose body parses.
GenInit ==
    /\ engine \in {"pxd", "mpp"}
    /\ callback = FALSE
    /\ dirs \in [1 .. 1 -> { d \in DirectiveSpace : BareHeader(d) }]
    /\ broken = {}
    /\ FirstUseOrder(dirs)
    /\ run = 1
    /\ script = [i \in Ids |-> NoScript]
    /\ prevTable = EmptyTable
    /\ Fresh([i \in Ids |-> i])

GenNext ==
    \/ Check
    \/ Sort
    \/ Compile
    \/ BuildParameters
    \/ ResetMeta
    \/ HookBefore
    \/ CallEnums
    \/ CallLut
    \/ Raise
    \/ Return
    \/ HookAfter
    \/ WriteOutput
    \/ VerifyExports
    \/ MergeExports
    \/ CopyExports

GenSpec == GenInit /\ [][GenNext]_vars

----------------------------------------------------------------------------
(* Reading a source file (not a Python file) into directives.  A line is   *)
(* an include-directive, the header of a directive, the line that ends a   *)
(* body or a line of Python: an empty line, a statement, a statement that  *)
(* raises when it runs, a line that does not parse.  metapreprocess() then *)
(* puts the bodies into one script, parses each body and runs them.        *)

MaxLines == 5

IncludeA == "#include \"a.meta\""
IncludeB == "#include <b.meta>"
Header == "/* #meta"
Ending == "*/"
Empty == ""
Statement == "x = 1"
Raising == "raise ValueError"
Unparsable == "x = )"

Lines == {IncludeA, IncludeB, Header, Ending, Empty, Statement, Raising, Unparsable}

\* The path an include-directive names, NoPath for any other line.
get_include_directive_file_path(l) ==
    IF l = IncludeA THEN "a.meta" ELSE IF l = IncludeB THEN "b.meta" ELSE NoPath

IsInclude(l) == get_include_directive_file_path(l) # NoPath

IsHeader(l) == l = Header

IsEnding(l) == l = Ending

remaining_lines == SubSeq(source.lines, source.read + 1, Len(source.lines))

\* The number of include-directives at the start of `ls`.
RECURSIVE LeadingIncludes(_)
LeadingIncludes(ls) ==
    IF ls # << >> /\ IsInclude(Head(ls)) THEN 1 + LeadingIncludes(Tail(ls)) ELSE 0

\* The number of header lines at the start of `ls`.
RECURSIVE LeadingHeaders(_)
LeadingHeaders(ls) ==
    IF ls # << >> /\ IsHeader(Head(ls)) THEN 1 + LeadingHeaders(Tail(ls)) ELSE 0

\* The lines of a body up to the line that ends it, 0 when none ends it.
RECURSIVE BodyLength(_)
BodyLength(ls) ==
    IF ls = << >> THEN 0
    ELSE IF IsEnding(Head(ls)) THEN 1
    ELSE IF BodyLength(Tail(ls)) = 0 THEN 0
    ELSE 1 + BodyLength(Tail(ls))

\* A directive as found: the text before the */ of the last line of its
\* body is empty and is no line of the body.
Directive(path, include_line_number, header_line_number, body_line_number, length) ==
    [include_file_path |-> path, include_line_number |-> include_line_number,
     first_header_line_number |-> header_line_number,
     body_line_number |-> body_line_number,
     body_lines |-> SubSeq(source.lines, body_line_number, body_line_number + length - 2),
     meta_main_line_number |-> 0]

ParseFrame ==
    UNCHANGED << engine, callback, dirs, broken, order, run, implicit, remaining,
                 schedule, available, cur, pc, table, params, fglobals, Meta, files,
                 script, log, errLine, cited, body, prevTable >>

\* The body of the directive found is read, or the end of the file is
\* reached before the body ends.
ReadBody(path, include_line_number, header_line_number, body_line_number) ==
    LET length == BodyLength(SubSeq(source.lines, body_line_number, Len(source.lines)))
    IN IF length = 0
       THEN /\ Fail("unterminated")
            /\ source' = [source EXCEPT !.read = Len(source.lines)]
       ELSE /\ source' = [source EXCEPT
                             !.read = body_line_number + length - 1,
                             !.found = Append(@, Directive(path, include_line_number,
                                                           header_line_number,
                                                           body_line_number, length))]
            /\ UNCHANGED << phase, err >>

\* metapreprocess(): one turn of `while remaining_lines`.  The include
\* directives are read, the last one counts; then the header lines of a
\* directive and its body, or one line that is neither.
PxdParse ==
    /\ engine = "pxd"
    /\ phase = "parse"
    /\ remaining_lines # << >>
    /\ LET includes == LeadingIncludes(remaining_lines)
           include_line_number == source.read + includes
           path == IF includes = 0 THEN NoPath
                   ELSE get_include_directive_file_path(source.lines[include_line_number])
           headers == LeadingHeaders(SubSeq(source.lines, include_line_number + 1,
                                            Len(source.lines)))
       IN IF headers = 0
          THEN /\ source' = [source EXCEPT
                                !.read = Least({include_line_number + 1, Len(source.lines)})]
               /\ UNCHANGED << phase, err >>
          ELSE ReadBody(path, IF includes = 0 THEN 0 ELSE include_line_number,
                        include_line_number + 1, include_line_number + headers + 1)
    /\ ParseFrame

\* do(): one turn of `while True`.  One line is looked at as an include
\* directive and read if it is one; the next line is read and is the
\* header of a directive or not.
MppParse ==
    /\ engine = "mpp"
    /\ phase = "parse"
    /\ remaining_lines # << >>
    /\ LET path == get_include_directive_file_path(remaining_lines[1])
           include_directive_line_number == IF path = NoPath THEN 0 ELSE source.read + 1
           meta_header_line_number == IF path = NoPath THEN source.read + 1
                                      ELSE source.read + 2
       IN IF meta_header_line_number > Len(source.lines)
             \/ ~ IsHeader(source.lines[Least({meta_header_line_number, Len(source.lines)})])
          THEN /\ source' = [source EXCEPT
                                !.read = Least({meta_header_line_number, Len(source.lines)})]
               /\ UNCHANGED << phase, err >>
          ELSE ReadBody(path, include_directive_line_number, meta_header_line_number,
                        meta_header_line_number + 1)
    /\ ParseFrame

\* The lines of the script before the functions of the directives, and
\* before the body in the function of a directive: the decorator, the
\* `def` and the `global` statement.
MainLines == 2
FunctionLines == 3

\* The lines a body has in the script: deindent leaves out an empty first
\* line.
InMain(body_lines) ==
    IF body_lines # << >> /\ Head(body_lines) = Empty THEN Tail(body_lines) ELSE body_lines

\* len(meta_main_lines) + 1 when the body of directive k is inserted.
RECURSIVE MainLineNumber(_)
MainLineNumber(k) ==
    IF k = 1 THEN MainLines + FunctionLines + 1
    ELSE MainLineNumber(k - 1) + Len(InMain(source.found[k - 1].body_lines))
         + FunctionLines

\* metapreprocess(): the script of all directives is put together.
PxdAssemble ==
    /\ engine = "pxd"
    /\ phase = "parse"
    /\ remaining_lines = << >>
    /\ source' = [source EXCEPT !.found =
                     [k \in DOMAIN @ |->
                        [@[k] EXCEPT !.meta_main_line_number = MainLineNumber(k)]]]
    /\ phase' = "parse-bodies"
    /\ UNCHANGED err
    /\ ParseFrame

\* In a body, a header line is no Python either.
NoSyntax(l) == l \in {Header, Unparsable}

First(S) == CHOOSE x \in S : \A y \in S : x <= y

\* error.lineno of the compilation of a body, 0 when it parses.
ErrorLine(body_lines) ==
    LET bad == { k \in DOMAIN body_lines : NoSyntax(body_lines[k]) }
    IN IF bad = {} THEN 0 ELSE First(bad)

\* metapreprocess(): each body is parsed by itself; the first syntax error
\* is reported at its line of the source file.
PxdParseBodies ==
    /\ phase = "parse-bodies"
    /\ LET bad == { k \in DOMAIN source.found : ErrorLine(source.found[k].body_lines) # 0 }
       IN IF bad # {}
          THEN LET meta_directive == source.found[First(bad)]
               IN /\ Fail("syntax")
                  /\ errLine' = meta_directive.body_line_number
                                   + ErrorLine(meta_directive.body_lines) - 1
                  /\ cur' = First(bad)
          ELSE /\ phase' = "run"
               /\ cur' = 1
               /\ UNCHANGED << err, errLine >>
    /\ UNCHANGED << source, engine, callback, dirs, broken, order, run, implicit,
                    remaining, schedule, available, pc, table, params, fglobals,
                    Meta, files, script, log, cited, body, prevTable >>

\* trace.lineno of the exception a body raises, 0 when it raises none.
TraceLine(meta_directive) ==
    LET ran == InMain(meta_directive.body_lines)
        raising == { k \in DOMAIN ran : ran[k] = Raising }
    IN IF raising = {} THEN 0
       ELSE meta_directive.meta_main_line_number + First(raising) - 1

\* The line of the source file for a line of the script: the directive is
\* the last one that starts at or before the line.
Frame(lineno) ==
    LET starts == { k \in DOMAIN source.found :
                       lineno >= source.found[k].meta_main_line_number }
        nearest == CHOOSE k \in starts :
                      \A j \in starts : source.found[j].meta_main_line_number
                                            <= source.found[k].meta_main_line_number
        body_line_index == lineno - source.found[nearest].meta_main_line_number
    IN source.found[nearest].body_line_number + body_line_index + 1

\* __META_DIRECTIVE_DECORATOR__: the next directive runs; an exception of
\* its body is reported at the line the back-trace gives.
PxdRun ==
    /\ phase = "run"
    /\ IF cur > Len(source.found)
       THEN /\ phase' = "done"
            /\ UNCHANGED << cur, err, errLine >>
       ELSE IF TraceLine(source.found[cur]) # 0
       THEN /\ Fail("execution")
            /\ errLine' = Frame(TraceLine(source.found[cur]))
            /\ UNCHANGED cur
       ELSE /\ cur' = cur + 1
            /\ UNCHANGED << phase, err, errLine >>
    /\ UNCHANGED << source, engine, callback, dirs, broken, order, run, implicit,
                    remaining, schedule, available, pc, table, params, fglobals,
                    Meta, files, script, log, cited, body, prevTable >>

RECURSIVE SeqsUpTo(_, _)
SeqsUpTo(S, n) ==
    IF n = 0 THEN { << >> }
    ELSE LET shorter == SeqsUpTo(S, n - 1)
         IN shorter \cup { Append(ls, l) : ls \in shorter, l \in S }

\* A source file of some lines, no line of it read.
ParseInit ==
    /\ engine \in {"pxd", "mpp"}
    /\ callback = FALSE
    /\ dirs = << >>
    /\ broken = {}
    /\ run = 1
    /\ script = << >>
    /\ prevTable = EmptyTable
    /\ order = << >>
    /\ phase = "parse"
    /\ implicit = << >>
    /\ remaining = << >>
    /\ schedule = << >>
    /\ available = {}
    /\ cur = 0
    /\ pc = 0
    /\ table = EmptyTable
    /\ params = << >>
    /\ fglobals = EmptyTable
    /\ Meta = EmptyMeta
    /\ files = NoFiles
    /\ log = << >>
    /\ err = "none"
    /\ errLine = 0
    /\ cited = {}
    /\ body = NoBody
    /\ source \in { [lines |-> ls, read |-> 0, found |-> << >>] :
                       ls \in SeqsUpTo(Lines, MaxLines) }

ParseNext ==
    \/ PxdParse
    \/ MppParse
    \/ PxdAssemble
    \/ PxdParseBodies
    \/ PxdRun

ParseSpec == ParseInit /\ [][ParseNext]_vars

----------------------------------------------------------------------------
(* The body of a directive that hands blocks of text to Meta.line, inside  *)
(* and outside of the scopes of Meta.enter.                                *)

MaxBlock == 3
MaxExtra == 2

\* The lines of a block: text or nothing after 0 or 2 spaces.
BlockLines ==
    { [Text(kind, "") EXCEPT !.depth = spaces] :
         kind \in {"text", "blank"}, spaces \in {0, 2} }

\* Meta.line(block)
CallLineBlock ==
    /\ Running
    /\ body.calls < MaxGenerated
    /\ \E block \in SeqsUpTo(BlockLines, MaxBlock) :
          Codegen(line(Meta, block), body.stack, << Event("line", "-", block) >>)
    /\ BodyFrame

LineNext ==
    \/ Check
    \/ Sort
    \/ Compile
    \/ BuildParameters
    \/ ResetMeta
    \/ HookBefore
    \/ CallLineBlock
    \/ CallEnter
    \/ Leave
    \/ Return
    \/ HookAfter
    \/ WriteOutput
    \/ VerifyExports
    \/ MergeExports
    \/ CopyExports

LineSpec == GenInit /\ [][LineNext]_vars

----------------------------------------------------------------------------
(* Properties.                                                             *)

\* Positions of the log that hold event ev of directive i.
At(ev, i) == { k \in DOMAIN log : log[k].ev = ev /\ log[k].id = i }

\* What a directive imports: the identifiers it lists, everything exported
\* anywhere when its header is bare, and every global identifier unless it
\* has a global list of its own.
ImportSet(d) ==
    d.imp
    \cup (IF d.exp = {} /\ d.imp = {} /\ d.glb = {}
          THEN UNION { dirs[j].exp \cup dirs[j].glb : j \in Ids } ELSE {})
    \cup (IF d.glb = {} THEN UNION { dirs[j].glb : j \in Ids } ELSE {})

ImportsFrom(b, a) == ImportSet(dirs[b]) \cap (dirs[a].exp \cup dirs[a].glb) # {}

\* C1: if directive b imports an identifier that directive a exports, the
\* body of a has finished before the body of b starts, for every order of
\* the input file list.
C1_ExportersRunFirst ==
    \A a, b \in Ids :
        ImportsFrom(b, a) =>
            \A k \in At("body-start", b) :
                \E j \in At("body-end", a) : j < k

\* C1 witness: the importer comes first in the input file list, and both
\* bodies have run.
C1_Witness ==
    \E a, b \in Ids :
        /\ ImportsFrom(b, a)
        /\ \E i, j \in DOMAIN order : i < j /\ order[i] = b /\ order[j] = a
        /\ At("body-end", b) # {}

\* C2: two runs over the same directives that differ only in the order of
\* the input file list end with the same symbol table.
C2_SameFinalTable ==
    (run = 2 /\ phase = "done") => table = prevTable

\* The five structural invariants of a directive set.
DistinctPaths ==
    \A i, j \in Ids : (i # j /\ dirs[i].inc # NoPath) => dirs[i].inc # dirs[j].inc

SingleExporter ==
    \A i, j \in Ids :
        i # j => (dirs[i].exp \cup dirs[i].glb) \cap (dirs[j].exp \cup dirs[j].glb) = {}

NoSelfImport ==
    \A i \in Ids : dirs[i].imp \cap (dirs[i].exp \cup dirs[i].glb) = {}

ImportsResolve ==
    \A i \in Ids : dirs[i].imp \subseteq UNION { dirs[j].exp \cup dirs[j].glb : j \in Ids }

\* The directives that directive i depends on, directly or through others.
RECURSIVE Upstream(_, _)
Upstream(S, n) ==
    IF n = 0 THEN S
    ELSE Upstream(S \cup { a \in Ids : \E b \in S : ImportsFrom(b, a) }, n - 1)

Acyclic ==
    \A i \in Ids :
        i \notin Upstream({ a \in Ids : ImportsFrom(i, a) }, Cardinality(Ids))

Structural == {"listed-twice", "duplicate-path", "duplicate-export",
               "unknown-import", "circular"}

\* C3: a directive body runs only when the directive set satisfies the five
\* structural invariants; a violation aborts the run with no directive
\* executed and no output file written.
C3_ValidatedBeforeExecution ==
    /\ (log # << >> \/ files # NoFiles \/ phase \in {"exec", "done"}) =>
          (DistinctPaths /\ SingleExporter /\ NoSelfImport /\ ImportsResolve /\ Acyclic)
    /\ err \in Structural => (log = << >> /\ files = NoFiles /\ table = EmptyTable)

\* C3 witness: a directive set with distinct paths, single exporters and
\* resolvable imports whose import graph has a cycle was aborted.
C3_Witness ==
    /\ phase = "failed"
    /\ err = "circular"
    /\ ~ Acyclic
    /\ log = << >>

\* C4: what a directive does to a value it imported leaves the value bound
\* in the symbol table unchanged.
C4_ImportsIsolated ==
    [][ (phase = "exec" /\ Steps[pc] = "body") =>
            \A n \in ImportSet(dirs[Current]) : table'[n] = table[n] ]_vars

\* The directives whose evaluation is over.
Finished ==
    IF phase = "done" THEN Range(schedule)
    ELSE IF phase = "exec" THEN { schedule[k] : k \in 1 .. (cur - 1) }
    ELSE {}

BoundNames == { n \in DOMAIN table : table[n] # Unbound }

\* C5: between two directives the symbol table holds exactly the identifiers
\* exported by the directives evaluated so far, each with the value its
\* exporter bound.
C5_TableIsExportsOfFinished ==
    ((phase = "exec" /\ pc = 1) \/ phase = "done") =>
        /\ BoundNames = UNION { dirs[i].exp \cup dirs[i].glb : i \in Finished }
        /\ \A k \in DOMAIN log :
              log[k].ev = "merge" => table[log[k].sym] = log[k].val

\* The line of the header of directive i that declares identifier n.
DeclarationLine(i, n) ==
    IF engine = "pxd" /\ n \in dirs[i].glb THEN 10 * i + 2 ELSE 10 * i

Position(i) == CHOOSE k \in DOMAIN schedule : schedule[k] = i

C7_WriteAfterVerification ==
    \A k \in DOMAIN log :
        log[k].ev = "write" =>
            \A n \in dirs[log[k].id].exp \cup dirs[log[k].id].glb :
                \E j \in At("check", log[k].id) : j < k /\ log[j].sym = n

\* C8: the "after" phase of the callback runs after the output of the
\* directive has been written, and receives the text that was written.
C8_AfterHookGetsFinalText ==
    \A k \in DOMAIN log :
        (log[k].ev = "after" /\ dirs[log[k].id].inc # NoPath) =>
            \E j \in At("write", log[k].id) : j < k /\ log[j].text = log[k].text

IsHookEvent(e) == e.ev \in {"before", "after"}

HookCalls == SelectSeq(log, IsHookEvent)

\* C9: a supplied callback is called twice per directive, before and after
\* its body, directive after directive in schedule order.
C9_HookTwicePerDirective ==
    /\ ~ callback => HookCalls = << >>
    /\ callback =>
        /\ \A k \in DOMAIN HookCalls :
              IF k % 2 = 1
              THEN HookCalls[k].ev = "before" /\ HookCalls[k].id = schedule[(k + 1) \div 2]
              ELSE HookCalls[k].ev = "after" /\ HookCalls[k].id = HookCalls[k - 1].id
        /\ Len(HookCalls) >= 2 * Cardinality(Finished)
        /\ phase = "done" => Len(HookCalls) = 2 * Len(schedule)
        /\ \A i \in Ids :
              /\ \A k \in At("body-start", i) : \E j \in At("before", i) : j < k
              /\ \A k \in At("after", i) : \E j \in At("body-end", i) : j < k

\* C9 witness: two directives were evaluated with a callback.
C9_Witness ==
    /\ callback
    /\ phase = "done"
    /\ Len(schedule) = 2
    /\ Len(HookCalls) = 4

\* C10: after a fatal error no body runs, no file is written and the symbol
\* table is not extended; the files written before the error stay as they are.
C10_NothingAfterFatal ==
    [][ /\ err # "none" => (log' = log /\ files' = files /\ table' = table)
        /\ err' # "none" =>
              \A p \in Paths : files[p] # NotWritten => files'[p] = files[p] ]_vars

\* C10 witness: the second directive failed after the first one had written
\* its file.
C10_Witness ==
    /\ err \in {"execution", "missing-definition"}
    /\ cur = 2
    /\ dirs[schedule[1]].inc # NoPath
    /\ files[dirs[schedule[1]].inc] # NotWritten

\* C11: every body is parsed before any directive executes: when a body
\* has a syntax error, wherever its directive sits in the schedule, the run
\* aborts with no directive executed and no output file written.
C11_SyntaxCheckedBeforeExecution ==
    /\ broken # {} =>
          /\ phase \notin {"exec", "done"}
          /\ log = << >>
          /\ files = NoFiles
    /\ err = "syntax" =>
          /\ table = EmptyTable
          /\ \E i \in broken : cited = { 10 * i + 3 }

\* C11 witness: the run aborted on a syntax error in the body of the
\* directive scheduled last.
C11_Witness ==
    /\ err = "syntax"
    /\ Len(schedule) = 2
    /\ schedule[2] \in broken
    /\ schedule[1] \notin broken

\* Two directives that each import an identifier only the other defines.
MutualImport(a, b) ==
    /\ a # b
    /\ SingleExporter
    /\ ImportsFrom(a, b)
    /\ ImportsFrom(b, a)

\* C12: when two directives import from each other, the run aborts with a
\* circular-dependency error that cites both, and no output file is written.
C12_MutualImportIsCircular ==
    \A a, b \in Ids :
        MutualImport(a, b) =>
            /\ phase \notin {"compile", "exec", "done"}
            /\ files = NoFiles
            /\ log = << >>
            /\ (phase = "failed" /\ DistinctPaths /\ NoSelfImport /\ ImportsResolve) =>
                  /\ err = "circular"
                  /\ { 10 * a, 10 * b } \subseteq cited

\* C12 witness: the run aborted on two directives importing from each other.
C12_Witness ==
    /\ err = "circular"
    /\ \E a, b \in Ids : MutualImport(a, b)
    /\ Cardinality(cited) >= 2

\* C13: when two directives define the same identifier, or write to the
\* same output path, the run aborts before any execution with an error that
\* cites every conflicting directive.
C13_DuplicatesCiteAllConflicts ==
    /\ (~ SingleExporter \/ ~ DistinctPaths) =>
          /\ phase \notin {"compile", "exec", "done"}
          /\ log = << >>
          /\ files = NoFiles
    /\ (phase = "failed" /\ NoSelfImport /\ ~ DistinctPaths) => err = "duplicate-path"
    /\ (phase = "failed" /\ NoSelfImport /\ DistinctPaths /\ ~ SingleExporter) =>
          err = "duplicate-export"
    /\ err = "duplicate-export" =>
          \E n \in Names :
              LET definers == { i \in Ids : n \in dirs[i].exp \cup dirs[i].glb }
              IN /\ Cardinality(definers) >= 2
                 /\ cited = { DeclarationLine(i, n) : i \in definers }
                 /\ Cardinality(cited) >= 2
    /\ err = "duplicate-path" =>
          \E p \in Paths :
              LET users == { i \in Ids : dirs[i].inc = p }
              IN /\ Cardinality(users) >= 2
                 /\ cited = { 10 * i - 1 : i \in users }
                 /\ Cardinality(cited) >= 2

\* C13 witness: two directives define the same identifier, one of them as a
\* global, and both definitions are cited.
C13_Witness ==
    /\ err = "duplicate-export"
    /\ Cardinality(cited) = 2
    /\ \E i \in Ids : dirs[i].glb # {}

\* C14: when the body of a directive starts, the working state of Meta is
\* reset (no output, indent 0, not within a macro, no overloaded macro
\* registered), and every line of a written file was emitted while the
\* directive the file belongs to was executing.
C14_MetaResetAtBodyStart ==
    /\ (AtStep("body") /\ body.local = 0) =>
          /\ Meta.output = << >>
          /\ Meta.indent = 0
          /\ Meta.within_macro = FALSE
          /\ Meta.overloads = << >>
    /\ \A p \in Paths :
          files[p] # NotWritten =>
              \A k \in DOMAIN files[p] : dirs[files[p][k].by].inc = p

\* The second body starts after a first body that left a macro scope open
\* and whose text went to its file.
C14_Witness ==
    /\ AtStep("body")
    /\ body.local = 0
    /\ cur = 2
    /\ dirs[schedule[1]].inc \in Paths
    /\ LET text == files[dirs[schedule[1]].inc]
       IN /\ text # NotWritten
          /\ \E k \in DOMAIN text : text[k].kind = "header" /\ text[k].cont > 0
          /\ \A k \in DOMAIN text : text[k].kind # "blank"
    /\ Meta = EmptyMeta

\* The overloaded macros that the body of directive i defined.
GroupsOf(i) == { log[k].sym : k \in At("define", i) }

\* The lines of the file at path p that define the macro called name.
DefinitionsOf(p, name) ==
    IF files[p] = NotWritten THEN {}
    ELSE { k \in DOMAIN files[p] : files[p][k].kind = "define" /\ files[p][k].text = name }

\* The lines of the file at path p that define a variant of the macro.
VariantsOf(p, name) ==
    IF files[p] = NotWritten THEN {}
    ELSE { k \in DOMAIN files[p] :
              /\ files[p][k].kind = "define"
              /\ files[p][k].call.name = name
              /\ files[p][k].call.keys # << >> }

\* C15 as stated: for every overloaded macro defined during the run, one
\* dispatcher macro is emitted in total when all directives have finished.
C15_OneDispatcherPerRun ==
    phase = "done" =>
        \A i \in Ids : \A name \in GroupsOf(i) :
            Cardinality(UNION { { << p, k >> : k \in DefinitionsOf(p, name) } :
                                p \in Paths }) = 1

\* C15, amended: overloaded macros are registered per directive.  The file
\* of a directive holds one dispatcher macro for each overloaded macro its
\* body defined and none for any other, and the dispatcher comes before the
\* variants; a directive without an include path gets no dispatcher.
C15_OneDispatcherPerFile ==
    \A i \in Ids : \A name \in { c.name : c \in DefineCalls } :
        LET p == dirs[i].inc
        IN (p # NoPath /\ files[p] # NotWritten) =>
              /\ Cardinality(DefinitionsOf(p, name)) = (IF name \in GroupsOf(i) THEN 1 ELSE 0)
              /\ name \in GroupsOf(i) => VariantsOf(p, name) # {}
              /\ \A d \in DefinitionsOf(p, name) : \A v \in VariantsOf(p, name) : d < v

\* Two directives defined variants of the same macro and each file has its
\* own dispatcher.
C15_Witness ==
    /\ phase = "done"
    /\ \A i \in Ids : dirs[i].inc # NoPath /\ "PICK" \in GroupsOf(i)
    /\ \A p \in Paths : Cardinality(DefinitionsOf(p, "PICK")) = 1

\* Macro replacement by the C preprocessor: a token that is a parameter is
\* replaced by its argument.
Substituted(tokens, actuals) ==
    [k \in DOMAIN tokens |->
        IF tokens[k] \in DOMAIN actuals THEN actuals[tokens[k]] ELSE tokens[k]]

\* The operands of ## are replaced, then pasted into one token.
Pasted(tokens, actuals) == Joined(Substituted(tokens, actuals), "")

\* The arguments of a use of the dispatcher that selects the variant of call
\* c: the C value of each overload key, the parameter itself elsewhere.
Selecting(parameters, c) ==
    [n \in Range(parameters) |->
        IF n \in Range(c.keys)
        THEN c.vals[CHOOSE k \in DOMAIN c.keys : c.keys[k] = n]
        ELSE n]

\* C16: in every written file, for every variant of an overloaded macro, the
\* dispatcher of the macro applied to the key values of the variant pastes
\* to the name the variant was defined under, and passes on the parameters
\* that are no overload keys, as the variant takes them.
C16_DispatcherReachesVariant ==
    \A p \in Paths :
        files[p] # NotWritten =>
            \A v \in DOMAIN files[p] :
                LET variant == files[p][v]
                IN (variant.kind = "define" /\ variant.call.keys # << >>) =>
                      \E d \in DefinitionsOf(p, variant.call.name) :
                          LET dispatcher == files[p][d]
                              actuals == Selecting(dispatcher.params, variant.call)
                          IN /\ Pasted(dispatcher.paste, actuals) = variant.text
                             /\ Substituted(dispatcher.args, actuals) = variant.params

\* The calls of Meta.define logged by the step.
DefineCalled(c) ==
    \E k \in (Len(log) + 1) .. Len(log') : log'[k].ev = "call" /\ log'[k].text = << c >>

\* The call disagrees with the group registered under its macro name.
Disagrees(c) ==
    \E k \in DOMAIN Meta.overloads :
        /\ Meta.overloads[k].name = c.name
        /\ Meta.overloads[k].params # c.params \/ Meta.overloads[k].keys # c.keys

\* C17: an overloaded Meta.define whose parameter list or overload keys
\* differ from those registered for the macro fails, emits nothing and
\* leaves the registry as it was; a call that agrees (in a directive that
\* may generate code) returns, and its variant is the last line emitted.
C17_DisagreeingDefineFails ==
    [][ \A c \in DefineCalls :
          DefineCalled(c) =>
              IF Disagrees(c)
              THEN /\ Meta' = Meta
                   /\ phase' = "failed" \/ Len(body'.stack) < Len(body.stack)
              ELSE CodegenAllowed(dirs[Current]) =>
                      /\ phase' = phase
                      /\ body'.stack = body.stack
                      /\ Len(Meta'.output) > Len(Meta.output)
                      /\ Meta'.output[Len(Meta'.output)].kind = "define"
                      /\ Meta'.output[Len(Meta'.output)].call = c
                      /\ \E k \in DOMAIN Meta'.overloads : Meta'.overloads[k].name = c.name
      ]_vars

\* A second call for PICK disagreed with the first and failed inside a try
\* block: the body goes on with one group and one variant.
C17_Witness ==
    /\ AtStep("body")
    /\ Cardinality({ k \in At("call", Current) : log[k].sym = "PICK" }) = 2
    /\ Cardinality(At("define", Current)) = 1
    /\ Len(Meta.overloads) = 1
    /\ Len(Meta.output) = 1

\* The Meta.enter scopes that the step leaves, by completion or by failure.
ScopesLeft ==
    { k \in DOMAIN body.stack : k > Len(body'.stack) /\ body.stack[k].with = "enter" }

\* The lines the step adds to the output.
Emitted == SubSeq(Meta'.output, Len(Meta.output) + 1, Len(Meta'.output))

\* The number of lines of a kind among those the step adds.
EmittedOf(kind) == Cardinality({ k \in DOMAIN Emitted : Emitted[k].kind = kind })

\* The scopes the step leaves are closed and what they changed is restored.
Released ==
    LET outermost == body.stack[Least(ScopesLeft)]
        OfHeader(defining_macro) ==
            Cardinality({ k \in ScopesLeft :
                Suggestion(body.stack[k].header).defining_macro = defining_macro })
    IN /\ Meta'.indent = outermost.indent
       /\ Meta'.within_macro = outermost.within_macro
       /\ EmittedOf("closing") = OfHeader(FALSE)
       /\ EmittedOf("blank") = OfHeader(TRUE)

\* C18: when a step leaves scopes of Meta.enter, whether the body of the
\* scope ended or failed, the closing of every scope left is emitted (the
\* closing text of a block, the empty line that ends a macro), and the
\* indentation and the macro flag are what they were before the outermost
\* of these scopes was entered.
C18_ScopeReleased ==
    [][ScopesLeft # {} => Released]_vars

\* A macro-definition scope is among the open blocks.
MacroOpen(stack) ==
    \E k \in DOMAIN stack :
        stack[k].with = "enter" /\ Suggestion(stack[k].header).defining_macro

\* The lines the step adds end with a backslash when a macro-definition
\* scope is open, the header of the scope included, and only then.
Continued ==
    /\ (MacroOpen(body.stack) /\ MacroOpen(body'.stack)) =>
          \A k \in DOMAIN Emitted : Emitted[k].cont > 0
    /\ (~ MacroOpen(body.stack) /\ MacroOpen(body'.stack)) =>
          \A k \in DOMAIN Emitted : Emitted[k].kind = "header" => Emitted[k].cont > 0
    /\ (~ MacroOpen(body.stack) /\ ~ MacroOpen(body'.stack)) =>
          \A k \in DOMAIN Emitted : Emitted[k].cont = 0

\* C19: a line the body emits while a macro-definition scope is open, the
\* header of the scope included, ends with a backslash, and a line it emits
\* while no macro-definition scope is open does not.
C19_BackslashInsideMacroOnly ==
    [][AtStep("body") => Continued]_vars

\* The deferred-section scopes that are open.
SectionsOpen == { k \in DOMAIN body.stack : body.stack[k].with = "section" }

\* The lines emitted since scope k was opened that are its header text.
HeadersOf(k) ==
    { j \in DOMAIN Meta.output :
        /\ j > body.stack[k].mark
        /\ Meta.output[j].kind = "section"
        /\ Meta.output[j].text = body.stack[k].text }

\* The content lines emitted since scope k was opened.
ContentOf(k) ==
    { j \in DOMAIN Meta.output :
        j > body.stack[k].mark /\ Meta.output[j].kind # "section" }

\* The header of every open section is absent while the scope has no
\* content line; otherwise it is there once, before the first content line
\* with only section headers between, the header of an outer section first.
Deferred ==
    \A k \in SectionsOpen :
        /\ Cardinality(HeadersOf(k)) = (IF ContentOf(k) = {} THEN 0 ELSE 1)
        /\ \A h \in HeadersOf(k) :
              /\ h < Least(ContentOf(k))
              /\ \A j \in h .. (Least(ContentOf(k)) - 1) : Meta.output[j].kind = "section"
              /\ \A inner \in SectionsOpen :
                    inner > k => \A g \in HeadersOf(inner) : h < g

\* A section header the step emits belongs to a section scope that is open.
HeaderInScope ==
    \A j \in DOMAIN Emitted :
        Emitted[j].kind = "section" =>
            \E k \in SectionsOpen : body.stack[k].text = Emitted[j].text

\* C20: while a deferred-section scope is open its header text has been
\* emitted exactly once if a content line was emitted in the scope, right
\* before the first such line and after the header of an enclosing section,
\* and not at all otherwise; no header is emitted outside its scope.
C20_SectionHeaderDeferred ==
    [][ /\ AtStep("body") => HeaderInScope
        /\ AtStep("body")' => Deferred' ]_vars

\* C21: the file written for a directive with an include path is the
\* dispatcher macros of the overloaded macros its body registered, in the
\* order of registration, followed by exactly the lines the body emitted,
\* unchanged and in the order of emission; a directive without an include
\* path writes no file.
C21_FileIsDispatchersThenEmitted ==
    [][ AtStep("output") =>
          LET p == dirs[Current].inc
              n == Len(Meta.overloads)
          IN IF p = NoPath THEN files' = files
             ELSE /\ Len(files'[p]) = n + Len(Meta.output)
                  /\ \A k \in 1 .. n :
                        /\ files'[p][k].kind = "define"
                        /\ files'[p][k].text = Meta.overloads[k].name
                  /\ SubSeq(files'[p], n + 1, Len(files'[p])) = Meta.output
      ]_vars

\* The calls of a primitive that the step makes, as logged.
CallsOf(ev) ==
    { log'[k].text : k \in { j \in (Len(log) + 1) .. Len(log') : log'[j].ev = ev } }

\* The step ends the body with an error and has output nothing.
Rejected == err' = "execution" /\ Meta'.output = Meta.output

\* C22: an enumeration given no member, directly or collected in a `with`
\* block, is rejected with an error and nothing is declared for it.
C22_EmptyEnumerationRejected ==
    [][ \A e \in CallsOf("enums") : e[1].members = << >> => Rejected ]_vars

HasDupe(values) ==
    \E j, k \in DOMAIN values : j < k /\ values[j] = values[k]

SameIndexTwice(table_rows) ==
    \E j, k \in DOMAIN table_rows :
       j < k /\ table_rows[j].index # "" /\ table_rows[j].index = table_rows[k].index

SameFieldTwice(table_rows) == \E k \in DOMAIN table_rows : HasDupe(table_rows[k].fields)

\* C23: an enumeration that lists a member twice, a lookup table with two
\* rows of the same index and a lookup table with a row that names a field
\* twice are rejected with an execution error.
C23_DuplicatesRejected ==
    [][ /\ \A e \in CallsOf("enums") : HasDupe(e[1].members) => Rejected
        /\ \A t \in CallsOf("lut") : SameIndexTwice(t) \/ SameFieldTwice(t) => Rejected
      ]_vars

IsMember(l) == l.kind = "member"

CountLines == { k \in DOMAIN Emitted : Emitted[k].text = "E_COUNT" }

\* C24: an enumeration of n members is output as the n members E_<member>
\* in the order of the list, and the count that follows has the value n
\* whether it is a macro, an enumeration of its own or a typed constant.
C24_MembersAndCount ==
    [][ \A e \in CallsOf("enums") :
           CodegenAllowed(dirs[Current]) =>
              LET c == e[1]
                  members == SelectSeq(Emitted, IsMember)
              IN /\ [k \in DOMAIN members |-> members[k].text]
                       = [k \in DOMAIN c.members |-> "E_" \o c.members[k]]
                 /\ c.count \in {"define", "enum", "constexpr"} =>
                       /\ Cardinality(CountLines) = 1
                       /\ \A k \in CountLines :
                             /\ Emitted[k].kind = c.count
                             /\ Emitted[k].paste = << ToString(Len(c.members)) >>
                             /\ \A j \in DOMAIN Emitted : IsMember(Emitted[j]) => j < k
      ]_vars

C24_Witness ==
    \E k \in DOMAIN log :
       /\ log[k].ev = "enums"
       /\ log[k].text[1].members = << "A", "A" >>
       /\ log[k].text[1].count = "enum"
       /\ \E j \in DOMAIN Meta.output :
             Meta.output[j].text = "E_COUNT" /\ Meta.output[j].paste = << "2" >>

\* The path named by the line before line k, NoPath when that line is no
\* include-directive or k is the first line.
NamedBefore(k) ==
    IF k > 1 THEN get_include_directive_file_path(source.lines[k - 1]) ELSE NoPath

\* C25: a directive found in a source file has the output path P exactly
\* when the line just before its header is an include-directive naming P,
\* also when an include-directive precedes that line; an include-directive
\* that no header follows gives no directive a path.
C25_PathFromLineBeforeHeader ==
    \A k \in DOMAIN source.found :
       source.found[k].include_file_path = NamedBefore(source.found[k].first_header_line_number)

\* The body line of directive k, counted from 1, that fails first.
FailingLine(k, Fails(_)) ==
    LET meta_directive == source.found[k]
    IN First({ n \in DOMAIN meta_directive.body_lines : Fails(meta_directive.body_lines[n]) })

Raises(l) == l = Raising

\* C26: for a directive whose body starts at line S of the source file, a
\* failure of the K-th line of the body is reported at line S + K - 1, be
\* it a syntax error found when the body is parsed by itself or an
\* exception located through the back-trace.
C26_FailureAtItsSourceLine ==
    /\ phase = "failed" /\ err = "syntax" =>
          errLine = source.found[cur].body_line_number + FailingLine(cur, NoSyntax) - 1
    /\ phase = "failed" /\ err = "execution" =>
          errLine = source.found[cur].body_line_number + FailingLine(cur, Raises) - 1

\* The block with n more spaces at the start of every line.
Shifted(block, n) == [k \in DOMAIN block |-> [block[k] EXCEPT !.depth = @ + n]]

\* C27: n more spaces at the start of every line of a block change nothing
\* of what Meta.line outputs for it, at any indentation, inside a macro or
\* not.
C27_UniformIndentationIgnored ==
    [][ \A block \in CallsOf("line") : \A n \in 0 .. MaxExtra :
           line(Meta, Shifted(block, n)).output = Meta'.output ]_vars

\* A cycle of explicit imports among the directives S: some of them each
\* list an import that another one of them defines.
ExplicitCycle(S) ==
    \E C \in SUBSET S :
       /\ C # {}
       /\ \A b \in C : \E a \in C :
             dirs[b].imp \cap (dirs[a].exp \cup dirs[a].glb) # {}

\* C28: when the scheduler finds no directive to run while some remain, the
\* remaining ones hold a cycle of explicitly listed imports (the imports
\* added for a bare header or for the global identifiers of others never
\* block it by themselves), and the error cites every remaining directive
\* whose header is not bare.
C28_StuckOnExplicitCycleOnly ==
    err = "circular" =>
       /\ ExplicitCycle(Range(remaining))
       /\ cited = { HeaderLine(i) : i \in { j \in Range(remaining) : ~ BareHeader(dirs[j]) } }

\* The scheduler is done and has not failed.
Scheduled ==
    \/ phase \in {"compile", "exec", "done"}
    \/ phase = "failed" /\ err \in {"syntax", "execution", "missing-definition"}

\* What the directives before position k of the schedule define.
DefinedBefore(k) == UNION { Defined(dirs[schedule[j]]) : j \in 1 .. (k - 1) }

CompleteSchedule ==
    /\ Len(schedule) = Len(dirs)
    /\ Range(schedule) = Ids
    /\ \A k \in DOMAIN schedule : ImportSet(dirs[schedule[k]]) \subseteq DefinedBefore(k)

SchedulerOutcome ==
    /\ Scheduled => CompleteSchedule /\ Acyclic
    /\ err = "circular" => ~ Acyclic /\ Len(schedule) < Len(dirs)

\* C29: the scheduler terminates (every turn of its loop takes a directive
\* from the remaining ones or ends the loop) and ends either with a schedule
\* that holds every directive once, each after the directives that define
\* what it imports, implicit imports included, or with the circular
\* dependency error; the error is raised exactly when the import graph has
\* a cycle.
C29_ScheduleOrCircularError ==
    [][ /\ phase = "sort" => phase' # "sort" \/ Len(remaining') < Len(remaining)
        /\ SchedulerOutcome' ]_vars

C29_Witness ==
    /\ phase = "compile"
    /\ Len(schedule) = 2
    /\ schedule[1] = 2
    /\ \E n \in implicit[1] : n \in Defined(dirs[2])

\* C30: at each step the scheduler takes the first of the remaining
\* directives, in the order of the input, whose imports are all defined by
\* the directives scheduled so far; the others keep their order.
C30_EarliestSatisfiedIsSelected ==
    [][ (phase = "sort" /\ schedule' # schedule) =>
           \E k \in DOMAIN remaining :
              /\ schedule' = Append(schedule, remaining[k])
              /\ ImportSet(dirs[remaining[k]]) \subseteq DefinedBefore(Len(schedule) + 1)
              /\ \A j \in 1 .. (k - 1) :
                    ~ (ImportSet(dirs[remaining[j]]) \subseteq DefinedBefore(Len(schedule) + 1))
              /\ remaining' = SubSeq(remaining, 1, k - 1)
                                \o SubSeq(remaining, k + 1, Len(remaining))
      ]_vars

C30_Witness ==
    /\ phase = "compile"
    /\ run = 1
    /\ Len(schedule) = 2
    /\ schedule[1] = 2
    /\ ImportSet(dirs[2]) = {}

====
